---------------------------- MODULE Spec2Model ----------------------------
(***************************************************************************)
(* A model of app.py, the wellness-habit report generator: the feature     *)
(* parser (parse_features), the rule engine (recommend_for_values), the    *)
(* dataset-level recommendations (dataset_recommendations) and the four    *)
(* tab blocks of the script, which run in order on every rerun.            *)
(*                                                                         *)
(* Numbers.  A cell of a numeric column is an integer count of the         *)
(* column's unit (Unit below: Sleep_Hours and Study_Hours in tenths, Steps *)
(* and Water_Intake_ml in hundreds, ...), or NaN.  A scalar that the code  *)
(* computes as a float (a mean, a correlation) is kept exact: a mean as a  *)
(* fraction n/d, a correlation as cov/sqrt(vx*vy), so a comparison with a  *)
(* threshold is exact and the floats' rounding error is not modelled.      *)
(* Text.  A wake-time cell is str(x): a sequence of one-character strings. *)
(* Dates.  A date text is the number of the day it denotes (day 0 is       *)
(* Thursday 1970-01-01), or -1 when pandas cannot parse it.                *)
(***************************************************************************)
EXTENDS Integers, Sequences, FiniteSets, TLC

VARIABLES df, pc, err, kpis, charts, insights, matrix, recs, report,
          args, tips, tips0

vars == <<df, pc, err, kpis, charts, insights, matrix, recs, report,
          args, tips, tips0>>

---------------------------------------------------------------------------
(* Bounds of the model. *)

\* longest free-form wake-time text
MaxStrLen == 4
\* two-digit texts "HH:MM" are drawn with HH in 0..MaxHH and MM in 0..MaxMM
MaxHH == 25
MaxMM == 99
\* rows of a drawn table
MaxRows == 3
\* day numbers of a drawn date are 0..MaxDay
MaxDay == 1
\* a drawn mood is in 1..MaxMood
MaxMood == 2
\* rows of a table drawn for the correlation notes
CorrRows == 5
\* how many steps beyond each threshold the rule-engine inputs reach
Spread == 1

---------------------------------------------------------------------------
(* Values. *)

NaN == [t |-> "nan", v |-> 0]
Num(k) == [t |-> "num", v |-> k]

\* a float scalar: the fraction n/d, d > 0; NaN; or Python's None
F(n, d) == [t |-> "num", n |-> n, d |-> d]
NaNF == [t |-> "nan", n |-> 0, d |-> 1]
None == [t |-> "None", n |-> 0, d |-> 1]

notna(x) == x.t = "num"
Lt(a, b) == a.n * b.d < b.n * a.d
Gt(a, b) == Lt(b, a)
Ge(a, b) == ~Lt(a, b)

Abs(k) == IF k < 0 THEN -k ELSE k

\* n/d rounded to the nearest integer, a tie to the even one (d > 0)
RoundHalfEven(n, d) ==
    LET q == n \div d
        r == n % d
    IN  IF 2 * r < d THEN q
        ELSE IF 2 * r > d THEN q + 1
        ELSE IF q % 2 = 0 THEN q ELSE q + 1

---------------------------------------------------------------------------
(* Columns. *)

InputCols == {"Date", "Wake_Up_Time", "Sleep_Hours", "Steps", "Calories_Burned",
              "Water_Intake_ml", "Study_Hours", "Mood_Score"}

\* the columns pandas holds as float64 or int64
NumericDtype == {"Sleep_Hours", "Steps", "Calories_Burned", "Water_Intake_ml",
                 "Study_Hours", "Mood_Score", "Wake_Minutes", "Wake_Hour",
                 "Water_Liters"}

\* what one unit of a numeric column's cells stands for, as a fraction
Unit(col) ==
    CASE col \in {"Sleep_Hours", "Study_Hours", "Water_Liters"} -> [n |-> 1, d |-> 10]
      [] col = "Wake_Hour" -> [n |-> 1, d |-> 100]
      [] col \in {"Steps", "Water_Intake_ml"} -> [n |-> 100, d |-> 1]
      [] col = "Calories_Burned" -> [n |-> 50, d |-> 1]
      [] OTHER -> [n |-> 1, d |-> 1]

DayNames == <<"Monday", "Tuesday", "Wednesday", "Thursday", "Friday",
              "Saturday", "Sunday">>

\* df[name] = vals, a value for each row
SetCol(d, name, vals) ==
    [cols |-> d.cols \cup {name},
     rows |-> [i \in DOMAIN d.rows |-> (name :> vals[i]) @@ d.rows[i]]]

\* Series.apply / an elementwise operation: the column's cells, row by row
Column(d, name) == [i \in DOMAIN d.rows |-> d.rows[i][name]]

---------------------------------------------------------------------------
(* parse_features. *)

Digits == {"0", "1", "2", "3", "4", "5", "6", "7", "8", "9"}

DigitVal(c) ==
    CASE c = "0" -> 0 [] c = "1" -> 1 [] c = "2" -> 2 [] c = "3" -> 3
      [] c = "4" -> 4 [] c = "5" -> 5 [] c = "6" -> 6 [] c = "7" -> 7
      [] c = "8" -> 8 [] c = "9" -> 9

\* str.split(":")
RECURSIVE split(_)
split(s) ==
    IF \A i \in DOMAIN s : s[i] # ":" THEN <<s>>
    ELSE LET i == CHOOSE j \in DOMAIN s :
                      s[j] = ":" /\ \A k \in 1..(j - 1) : s[k] # ":"
         IN  <<SubSeq(s, 1, i - 1)>> \o split(SubSeq(s, i + 1, Len(s)))

\* str.strip(), which int() applies to its argument
RECURSIVE lstrip(_)
lstrip(s) == IF s # <<>> /\ s[1] = " " THEN lstrip(Tail(s)) ELSE s

RECURSIVE rstrip(_)
rstrip(s) ==
    IF s # <<>> /\ s[Len(s)] = " " THEN rstrip(SubSeq(s, 1, Len(s) - 1)) ELSE s

\* the digits of an int() literal after the blanks and the sign are taken off
IntBody(s) ==
    LET b == rstrip(lstrip(s))
    IN  IF b # <<>> /\ b[1] \in {"-", "+"} THEN Tail(b) ELSE b

\* int(s) raises ValueError unless s is blanks, an optional sign, digits, blanks
int_ok(s) ==
    /\ IntBody(s) # <<>>
    /\ \A i \in DOMAIN IntBody(s) : IntBody(s)[i] \in Digits

RECURSIVE DigitsVal(_)
DigitsVal(ds) ==
    IF ds = <<>> THEN 0
    ELSE 10 * DigitsVal(SubSeq(ds, 1, Len(ds) - 1)) + DigitVal(ds[Len(ds)])

int(s) ==
    LET b == rstrip(lstrip(s))
    IN  IF b[1] = "-" THEN -DigitsVal(IntBody(s)) ELSE DigitsVal(IntBody(s))

\* t2m with the hour and the minute taken the wrong way round
t2m_swapped(x) ==
    LET parts == split(x)
    IN  IF Len(parts) # 2 THEN NaN
        ELSE IF ~int_ok(parts[1]) \/ ~int_ok(parts[2]) THEN NaN
        ELSE Num(int(parts[2]) * 60 + int(parts[1]))

\* h,m = str(x).split(":"); return int(h)*60 + int(m); any exception -> nan
t2m(x) ==
    LET parts == split(x)
    IN  IF Len(parts) # 2 THEN NaN
        ELSE IF ~int_ok(parts[1]) \/ ~int_ok(parts[2]) THEN NaN
        ELSE Num(int(parts[1]) * 60 + int(parts[2]))

\* (Wake_Minutes/60).round(2), in hundredths of an hour
wake_hour_of(wm) ==
    IF wm.t = "nan" THEN NaN ELSE Num(RoundHalfEven(100 * wm.v, 60))

\* pd.to_datetime(errors='coerce'): a text becomes its day or NaT; a value that
\* is a datetime already is kept
to_datetime(c) ==
    IF c.t = "text" THEN (IF c.v >= 0 THEN Num(c.v) ELSE NaN) ELSE c

\* Series.dt.day_name(): NaT gives NaN
day_name(c) ==
    IF c.t = "nan" THEN [t |-> "nan", v |-> ""]
    ELSE [t |-> "str", v |-> DayNames[((c.v + 3) % 7) + 1]]

water_liters_of(c) == IF c.t = "nan" THEN NaN ELSE Num(c.v)

\* df['Date'] raises KeyError when the table has no Date column
parse_raises(d) == "Date" \notin d.cols

parse_features(d) ==
    LET d1 == SetCol(d, "Date",
                     [i \in DOMAIN d.rows |-> to_datetime(Column(d, "Date")[i])])
        d2 == IF "Wake_Up_Time" \in d1.cols
              THEN SetCol(d1, "Wake_Minutes",
                          [i \in DOMAIN d.rows |-> t2m(Column(d1, "Wake_Up_Time")[i])])
              ELSE d1
        d3 == IF "Wake_Up_Time" \in d1.cols
              THEN SetCol(d2, "Wake_Hour",
                          [i \in DOMAIN d.rows |->
                              wake_hour_of(Column(d2, "Wake_Minutes")[i])])
              ELSE d2
        d4 == SetCol(d3, "Weekday",
                     [i \in DOMAIN d.rows |-> day_name(Column(d3, "Date")[i])])
    IN  IF "Water_Intake_ml" \in d4.cols
        THEN SetCol(d4, "Water_Liters",
                    [i \in DOMAIN d.rows |->
                        water_liters_of(Column(d4, "Water_Intake_ml")[i])])
        ELSE d4

---------------------------------------------------------------------------
(* The rule engine. *)

\* sleep_tip with the lower bound of the healthy band exclusive
sleep_tip_le(sleep) ==
    IF ~notna(sleep) THEN <<>>
    ELSE IF ~Gt(sleep, F(6, 1)) THEN <<"sleep_low">>
    ELSE IF Gt(sleep, F(95, 10)) THEN <<"sleep_long">>
    ELSE <<"sleep_ok">>

\* the advice for one metric, or nothing when the value is null
sleep_tip(sleep) ==
    IF ~notna(sleep) THEN <<>>
    ELSE IF Lt(sleep, F(6, 1)) THEN <<"sleep_low">>
    ELSE IF Gt(sleep, F(95, 10)) THEN <<"sleep_long">>
    ELSE <<"sleep_ok">>

steps_tip(steps) ==
    IF ~notna(steps) THEN <<>>
    ELSE IF Lt(steps, F(5000, 1)) THEN <<"steps_low">>
    ELSE IF Lt(steps, F(8000, 1)) THEN <<"steps_near">>
    ELSE <<"steps_ok">>

water_tip(water_ml) ==
    IF ~notna(water_ml) THEN <<>>
    ELSE IF Lt(water_ml, F(2000, 1)) THEN <<"water_low">>
    ELSE IF Gt(water_ml, F(4000, 1)) THEN <<"water_high">>
    ELSE <<"water_ok">>

study_tip(study) ==
    IF ~notna(study) THEN <<>>
    ELSE IF Gt(study, F(8, 1)) THEN <<"study_long">>
    ELSE IF Lt(study, F(2, 1)) THEN <<"study_short">>
    ELSE <<"study_ok">>

wake_tip(wake_hour) ==
    IF ~notna(wake_hour) THEN <<>>
    ELSE IF Gt(wake_hour, F(10, 1)) THEN <<"wake_late">>
    ELSE IF Lt(wake_hour, F(45, 10)) THEN <<"wake_early">>
    ELSE <<"wake_ok">>

\* mood_tip with the good-mood bound exclusive
mood_tip_gt(mood) ==
    IF mood.t = "None" \/ ~notna(mood) THEN <<>>
    ELSE IF Lt(mood, F(5, 1)) THEN <<"mood_low">>
    ELSE IF Gt(mood, F(8, 1)) THEN <<"mood_good">>
    ELSE <<>>

\* mood is not None and pd.notna(mood)
mood_tip(mood) ==
    IF mood.t = "None" \/ ~notna(mood) THEN <<>>
    ELSE IF Lt(mood, F(5, 1)) THEN <<"mood_low">>
    ELSE IF Ge(mood, F(8, 1)) THEN <<"mood_good">>
    ELSE <<>>

\* recommend_for_values with the study block ahead of the hydration block
recommend_study_first(sleep, steps, water_ml, study, wake_hour, mood) ==
    sleep_tip(sleep) \o steps_tip(steps) \o study_tip(study)
        \o water_tip(water_ml) \o wake_tip(wake_hour) \o mood_tip(mood)

recommend_for_values(sleep, steps, water_ml, study, wake_hour, mood) ==
    sleep_tip(sleep) \o steps_tip(steps) \o water_tip(water_ml)
        \o study_tip(study) \o wake_tip(wake_hour) \o mood_tip(mood)

---------------------------------------------------------------------------
(* Aggregates. *)

\* the rows in which every one of the columns cs holds a value
Valid(d, cs) == {i \in DOMAIN d.rows : \A c \in cs : d.rows[i][c].t = "num"}

\* the sum of f[i] over the rows is
RECURSIVE SumOf(_, _)
SumOf(f, is) ==
    IF is = {} THEN 0
    ELSE LET i == CHOOSE j \in is : TRUE
         IN  f[i] + SumOf(f, is \ {i})

\* mean dividing by one less than the number of values
mean_n_minus_1(d, col) ==
    LET is == Valid(d, {col})
    IN  IF Cardinality(is) < 2 THEN NaNF
        ELSE F(SumOf([i \in is |-> d.rows[i][col].v], is) * Unit(col).n,
               (Cardinality(is) - 1) * Unit(col).d)

\* Series.mean(): over the values that are not null; NaN when there are none
mean(d, col) ==
    LET is == Valid(d, {col})
    IN  IF is = {} THEN NaNF
        ELSE F(SumOf([i \in is |-> d.rows[i][col].v], is) * Unit(col).n,
               Cardinality(is) * Unit(col).d)

\* Series.corr(): Pearson's r over the rows where both columns hold a value, kept
\* as cov/sqrt(vx*vy) with cov = n*Sxy - Sx*Sy, vx = n*Sxx - Sx^2, vy likewise;
\* NaN with fewer than two such rows or a column that is constant over them
corr(d, a, b) ==
    LET is == Valid(d, {a, b})
        n == Cardinality(is)
        x == [i \in is |-> d.rows[i][a].v]
        y == [i \in is |-> d.rows[i][b].v]
        sx == SumOf(x, is)
        sy == SumOf(y, is)
        sxy == SumOf([i \in is |-> x[i] * y[i]], is)
        sxx == SumOf([i \in is |-> x[i] * x[i]], is)
        syy == SumOf([i \in is |-> y[i] * y[i]], is)
        vx == n * sxx - sx * sx
        vy == n * syy - sy * sy
    IN  IF n < 2 \/ vx = 0 \/ vy = 0
        THEN [t |-> "nan", cov |-> 0, vx |-> 1, vy |-> 1]
        ELSE [t |-> "num", cov |-> n * sxy - sx * sy, vx |-> vx, vy |-> vy]

\* abs(c) >= q for a fraction q >= 0
AbsCorrGe(c, q) == c.cov * c.cov * q.d * q.d >= q.n * q.n * c.vx * c.vy

\* c >= q for a fraction q > 0
CorrGe(c, q) == c.cov > 0 /\ AbsCorrGe(c, q)

\* df.select_dtypes(include=['float64','int64']).columns
num_cols(d) == d.cols \cap NumericDtype

---------------------------------------------------------------------------
(* dataset_recommendations. *)

RecCols == {"Sleep_Hours", "Steps", "Water_Intake_ml", "Study_Hours", "Wake_Hour",
            "Mood_Score"}

\* df.get(col) is None for an absent column, and None.mean() raises AttributeError
recs_raises(d) == \E c \in RecCols : c \notin d.cols

sleep_mood_note(d) ==
    IF {"Sleep_Hours", "Mood_Score"} \subseteq num_cols(d)
       /\ corr(d, "Sleep_Hours", "Mood_Score").t = "num"
       /\ AbsCorrGe(corr(d, "Sleep_Hours", "Mood_Score"), F(1, 4))
    THEN <<"note_sleep_mood">> ELSE <<>>

\* steps_mood_note comparing the absolute value, as the sleep note does
steps_mood_note_abs(d) ==
    IF {"Steps", "Mood_Score"} \subseteq num_cols(d)
       /\ corr(d, "Steps", "Mood_Score").t = "num"
       /\ AbsCorrGe(corr(d, "Steps", "Mood_Score"), F(1, 4))
    THEN <<"note_steps_mood">> ELSE <<>>

steps_mood_note(d) ==
    IF {"Steps", "Mood_Score"} \subseteq num_cols(d)
       /\ corr(d, "Steps", "Mood_Score").t = "num"
       /\ CorrGe(corr(d, "Steps", "Mood_Score"), F(1, 4))
    THEN <<"note_steps_mood">> ELSE <<>>

dataset_recommendations(d) ==
    recommend_for_values(mean(d, "Sleep_Hours"), mean(d, "Steps"),
                         mean(d, "Water_Intake_ml"), mean(d, "Study_Hours"),
                         mean(d, "Wake_Hour"), mean(d, "Mood_Score"))
        \o sleep_mood_note(d) \o steps_mood_note(d)

---------------------------------------------------------------------------
(* Tab 1: the dashboard's KPIs. *)

\* f"{x:.2f}", in hundredths; "nan" for NaN
Fmt2(x) == IF ~notna(x) THEN NaN ELSE Num(RoundHalfEven(100 * x.n, x.d))

\* x/1000
per_thousand(x) == IF ~notna(x) THEN x ELSE F(x.n, 1000 * x.d)

\* int(x) raises ValueError for NaN, and truncates towards zero otherwise
int_of(x) == IF x.n >= 0 THEN Num(x.n \div x.d) ELSE Num(-((-x.n) \div x.d))

kpi_sleep(d) ==
    IF "Sleep_Hours" \in d.cols
    THEN "Avg Sleep (hrs)" :> Fmt2(mean(d, "Sleep_Hours")) ELSE <<>>

kpi_steps(d) ==
    IF "Steps" \in d.cols THEN "Avg Steps" :> int_of(mean(d, "Steps")) ELSE <<>>

kpi_water(d) ==
    IF "Water_Intake_ml" \in d.cols
    THEN "Avg Water (L)" :> Fmt2(per_thousand(mean(d, "Water_Intake_ml"))) ELSE <<>>

kpi_mood(d) ==
    IF "Mood_Score" \in d.cols
    THEN "Avg Mood (1-10)" :> Fmt2(mean(d, "Mood_Score")) ELSE <<>>

steps_kpi_raises(d) == "Steps" \in d.cols /\ ~notna(mean(d, "Steps"))

---------------------------------------------------------------------------
(* Tab 2: the charts that are drawn. *)

charts_of(d) ==
    (IF {"Date", "Steps"} \subseteq d.cols THEN {"Steps over time"} ELSE {})
    \cup (IF {"Weekday", "Sleep_Hours"} \subseteq d.cols
          THEN {"Average Sleep by Weekday"} ELSE {})
    \cup (IF {"Sleep_Hours", "Mood_Score"} \subseteq d.cols
          THEN {"Sleep vs Mood"} ELSE {})
    \cup (IF "Water_Intake_ml" \in d.cols
          THEN {"Water Intake distribution"} ELSE {})

---------------------------------------------------------------------------
(* Tab 3: the insights and the correlation matrix. *)

\* one correlation line; the value is kept exact, its two-decimal text is not
\* modelled
corr_line(d, a, b, label) ==
    IF {a, b} \subseteq d.cols /\ corr(d, a, b).t = "num"
    THEN <<[label |-> label, val |-> corr(d, a, b)]>> ELSE <<>>

corr_lines(d) ==
    corr_line(d, "Sleep_Hours", "Mood_Score", "Sleep <-> Mood")
        \o corr_line(d, "Steps", "Mood_Score", "Steps <-> Mood")
        \o corr_line(d, "Study_Hours", "Mood_Score", "Study <-> Mood")
        \o corr_line(d, "Water_Intake_ml", "Mood_Score", "Hydration <-> Mood")

\* df.groupby('Weekday'): the groups are the weekdays some row has (a null key
\* is dropped), in the sorted order of their names
AlphaOrder == <<"Friday", "Monday", "Saturday", "Sunday", "Thursday", "Tuesday",
                "Wednesday">>

wk_groups(d) ==
    {d.rows[i]["Weekday"].v : i \in {j \in DOMAIN d.rows : d.rows[j]["Weekday"].t = "str"}}

\* the mean of col over one weekday's rows
group_mean(d, day, col) ==
    LET is == {i \in Valid(d, {col}) :
                   d.rows[i]["Weekday"].t = "str" /\ d.rows[i]["Weekday"].v = day}
    IN  IF is = {} THEN NaNF
        ELSE F(SumOf([i \in is |-> d.rows[i][col].v], is) * Unit(col).n,
               Cardinality(is) * Unit(col).d)

\* top_days with the sort ascending
top_days_ascending(d, col) ==
    LET g == wk_groups(d)
        def == {w \in g : notna(group_mean(d, w, col))}
    IN  IF def # {}
        THEN {w \in def : \A u \in def : Ge(group_mean(d, u, col), group_mean(d, w, col))}
        ELSE {AlphaOrder[i] : i \in {j \in 1..7 :
                  AlphaOrder[j] \in g /\ \A k \in 1..(j - 1) : AlphaOrder[k] \notin g}}

\* what wk.index[0] can be after sort_values(ascending=False): a NaN mean sorts
\* last, in group order; the default sort kind is quicksort, which is not stable,
\* so which of several equal greatest means comes first is the build's choice
top_days(d, col) ==
    LET g == wk_groups(d)
        def == {w \in g : notna(group_mean(d, w, col))}
    IN  IF def # {}
        THEN {w \in def : \A u \in def : Ge(group_mean(d, w, col), group_mean(d, u, col))}
        ELSE {AlphaOrder[i] : i \in {j \in 1..7 :
                  AlphaOrder[j] \in g /\ \A k \in 1..(j - 1) : AlphaOrder[k] \notin g}}

mood_day_applies(d) == {"Weekday", "Mood_Score"} \subseteq d.cols /\ wk_groups(d) # {}

NoMatrix == [kind |-> "none", cols |-> {}, m |-> <<>>]

\* df[num_cols].corr(); the entries are kept exact, round(2) is not modelled
corr_matrix(d) ==
    [kind |-> "matrix", cols |-> num_cols(d),
     m |-> [p \in num_cols(d) \X num_cols(d) |-> corr(d, p[1], p[2])]]

\* the "Show Correlation Matrix" button
insights_matrix(d) ==
    IF Cardinality(num_cols(d)) > 1 THEN corr_matrix(d)
    ELSE [kind |-> "warning", cols |-> {}, m |-> <<>>]

---------------------------------------------------------------------------
(* Tab 4: the report. *)

ReportCols == <<"Sleep_Hours", "Steps", "Water_Intake_ml", "Study_Hours",
                "Mood_Score">>

report_averages(d) ==
    [c \in {ReportCols[i] : i \in DOMAIN ReportCols} \cap d.cols |-> Fmt2(mean(d, c))]

report_correlation(d) ==
    IF Cardinality(num_cols(d)) > 1 THEN corr_matrix(d)
    ELSE [kind |-> "warning", cols |-> {}, m |-> <<>>]

NoReport == [written |-> FALSE]

report_of(d) ==
    [written |-> TRUE, averages |-> report_averages(d),
     corr |-> report_correlation(d), recs |-> dataset_recommendations(d)]

\* the widgets' default values
Widgets ==
    [sleep |-> F(6, 1), steps |-> F(4500, 1), water_ml |-> F(1800, 1),
     study |-> F(3, 1), wake_hour |-> F(9, 1), mood |-> F(6, 1)]

---------------------------------------------------------------------------
(* The script: the four tab blocks run in order; an uncaught exception ends *)
(* the run.                                                                 *)

Crash(e) == pc' = "crashed" /\ err' = e

Dashboard ==
    /\ pc = "tab1"
    /\ IF parse_raises(df)
       THEN /\ Crash("KeyError")
            /\ UNCHANGED <<df, kpis>>
       ELSE /\ df' = parse_features(df)
            /\ IF steps_kpi_raises(df')
               THEN /\ Crash("ValueError")
                    /\ kpis' = kpi_sleep(df')
               ELSE /\ pc' = "tab2"
                    /\ kpis' = kpi_sleep(df') @@ kpi_steps(df') @@ kpi_water(df')
                                   @@ kpi_mood(df')
                    /\ UNCHANGED err
    /\ UNCHANGED <<charts, insights, matrix, recs, report, args, tips, tips0>>

Visualizations ==
    /\ pc = "tab2"
    /\ df' = parse_features(df)
    /\ charts' = charts_of(df')
    /\ pc' = "tab3"
    /\ UNCHANGED <<err, kpis, insights, matrix, recs, report, args, tips, tips0>>

Insights ==
    /\ pc = "tab3"
    /\ df' = parse_features(df)
    /\ IF mood_day_applies(df')
       THEN \E day \in top_days(df', "Mood_Score") :
                insights' = corr_lines(df')
                    \o <<[label |-> "Highest average mood day", val |-> day]>>
       ELSE insights' = corr_lines(df')
    /\ \E pressed \in BOOLEAN :
           matrix' = IF pressed THEN insights_matrix(df') ELSE NoMatrix
    /\ pc' = "tab4"
    /\ UNCHANGED <<err, kpis, charts, recs, report, args, tips, tips0>>

Recommendations ==
    /\ pc = "tab4"
    /\ df' = parse_features(df)
    /\ IF recs_raises(df')
       THEN /\ Crash("AttributeError")
            /\ UNCHANGED <<recs, tips, report>>
       ELSE /\ recs' = dataset_recommendations(df')
            /\ tips' = recommend_for_values(args.sleep, args.steps, args.water_ml,
                                            args.study, args.wake_hour, args.mood)
            /\ \E pressed \in BOOLEAN :
                   report' = IF pressed THEN report_of(df') ELSE NoReport
            /\ pc' = "done"
            /\ UNCHANGED err
    /\ UNCHANGED <<kpis, charts, insights, matrix, args, tips0>>

ScriptNext == Dashboard \/ Visualizations \/ Insights \/ Recommendations

---------------------------------------------------------------------------
(* The calls of the two functions on drawn arguments. *)

\* recommend_for_values(...) with the mood given, and with the mood left out
Evaluate ==
    /\ pc = "input"
    /\ tips' = recommend_for_values(args.sleep, args.steps, args.water_ml,
                                    args.study, args.wake_hour, args.mood)
    /\ tips0' = recommend_for_values(args.sleep, args.steps, args.water_ml,
                                     args.study, args.wake_hour, None)
    /\ pc' = "evaluated"
    /\ UNCHANGED <<df, err, kpis, charts, insights, matrix, recs, report, args>>

\* dataset_recommendations(parse_features(df))
Recommend ==
    /\ pc = "call"
    /\ IF parse_raises(df)
       THEN /\ Crash("KeyError")
            /\ UNCHANGED <<df, recs>>
       ELSE /\ df' = parse_features(df)
            /\ IF recs_raises(df')
               THEN /\ Crash("AttributeError")
                    /\ UNCHANGED recs
               ELSE /\ recs' = dataset_recommendations(df')
                    /\ pc' = "returned"
                    /\ UNCHANGED err
    /\ UNCHANGED <<kpis, charts, insights, matrix, report, args, tips, tips0>>

---------------------------------------------------------------------------
(* The tables and arguments that are drawn. *)

DigitChar(k) ==
    CASE k = 0 -> "0" [] k = 1 -> "1" [] k = 2 -> "2" [] k = 3 -> "3"
      [] k = 4 -> "4" [] k = 5 -> "5" [] k = 6 -> "6" [] k = 7 -> "7"
      [] k = 8 -> "8" [] k = 9 -> "9"

\* the decimal digits of k >= 0
RECURSIVE Decimal(_)
Decimal(k) ==
    IF k < 10 THEN <<DigitChar(k)>> ELSE Decimal(k \div 10) \o <<DigitChar(k % 10)>>

\* "%02d:%02d"
Pad2(k) == IF k < 10 THEN <<"0">> \o Decimal(k) ELSE Decimal(k)
FormatHHMM(h, m) == Pad2(h) \o <<":">> \o Pad2(m)

FormattedTexts == {FormatHHMM(h, m) : h \in 0..MaxHH, m \in 0..MaxMM}
FreeAlphabet == {"1", "7", ":", "-", " ", "a"}
FreeTexts == UNION {[1..n -> FreeAlphabet] : n \in 0..MaxStrLen}
WakeTexts == FormattedTexts \cup FreeTexts

DateText(k) == [t |-> "text", v |-> k]

Restrict(row, cs) == [c \in cs |-> row[c]]

\* the sample table of the sidebar, its last date being day `today`
SampleWake == <<FormatHHMM(6, 30), FormatHHMM(7, 0), FormatHHMM(6, 45),
                FormatHHMM(7, 15), FormatHHMM(6, 50), FormatHHMM(7, 10),
                FormatHHMM(7, 0)>>
SampleSleep == <<70, 65, 75, 60, 80, 72, 68>>
SampleSteps == <<50, 42, 80, 30, 100, 72, 65>>
SampleCalories == <<42, 40, 46, 36, 52, 44, 41>>
SampleWater == <<20, 15, 25, 18, 30, 22, 20>>
SampleStudy == <<20, 30, 15, 40, 25, 30, 20>>
SampleMood == <<7, 6, 8, 5, 9, 7, 6>>

sample_df(today) ==
    [cols |-> InputCols,
     rows |-> [i \in 1..7 |->
                 [Date |-> DateText(today - 7 + i),
                  Wake_Up_Time |-> SampleWake[i],
                  Sleep_Hours |-> Num(SampleSleep[i]),
                  Steps |-> Num(SampleSteps[i]),
                  Calories_Burned |-> Num(SampleCalories[i]),
                  Water_Intake_ml |-> Num(SampleWater[i]),
                  Study_Hours |-> Num(SampleStudy[i]),
                  Mood_Score |-> Num(SampleMood[i])]]]

\* a table keeping only the columns cs
Keep(d, cs) == [cols |-> cs, rows |-> [i \in DOMAIN d.rows |-> Restrict(d.rows[i], cs)]]

Fresh ==
    /\ err = "none"
    /\ kpis = <<>>
    /\ charts = {}
    /\ insights = <<>>
    /\ matrix = NoMatrix
    /\ recs = <<>>
    /\ report = NoReport
    /\ tips = <<>>
    /\ tips0 = <<>>

\* one row with a date and a wake-time text
InitParse ==
    /\ Fresh
    /\ pc = "tab1"
    /\ args = Widgets
    /\ \E x \in WakeTexts, k \in {-1, 0} :
           df = [cols |-> {"Date", "Wake_Up_Time"},
                 rows |-> <<[Date |-> DateText(k), Wake_Up_Time |-> x]>>]

\* the sample table with any of its columns left out
InitColumns ==
    /\ Fresh
    /\ pc = "tab1"
    /\ args = Widgets
    /\ \E today \in 6..12, cs \in (SUBSET InputCols) \ {{}} :
           df = Keep(sample_df(today), cs)

\* dates and moods
MoodCells == {NaN} \cup {Num(v) : v \in 1..MaxMood}
MoodRows == {[Date |-> DateText(k), Mood_Score |-> c] : k \in -1..MaxDay, c \in MoodCells}

InitMood ==
    /\ Fresh
    /\ pc = "tab1"
    /\ args = Widgets
    /\ \E n \in 1..MaxRows : \E rows \in [1..n -> MoodRows] :
           df = [cols |-> {"Date", "Mood_Score"}, rows |-> rows]

\* sleep, steps and mood each at a low or a high level, the mood also missing
\* (level 2), the other columns fixed; the rows in nondecreasing order of their
\* levels (the order of the rows plays no part in a mean or a correlation)
CorrRow(l) ==
    [Date |-> DateText(0), Wake_Up_Time |-> FormatHHMM(7, 0),
     Sleep_Hours |-> Num(60 + 10 * l[1]), Steps |-> Num(40 + 20 * l[2]),
     Water_Intake_ml |-> Num(20), Study_Hours |-> Num(30),
     Mood_Score |-> IF l[3] = 2 THEN NaN ELSE Num(4 + 2 * l[3])]

Levels == {0, 1} \X {0, 1} \X {0, 1, 2}
LevelCode(l) == 6 * l[1] + 3 * l[2] + l[3]

InitCorr ==
    /\ Fresh
    /\ pc = "call"
    /\ args = Widgets
    /\ \E n \in 1..CorrRows : \E ls \in [1..n -> Levels] :
           /\ \A i \in 1..(n - 1) : LevelCode(ls[i]) <= LevelCode(ls[i + 1])
           /\ df = [cols |-> InputCols \ {"Calories_Burned"},
                    rows |-> [i \in 1..n |-> CorrRow(ls[i])]]

\* the arguments of the rule engine, at and around each threshold
SleepVals == {NaNF, None} \cup {F(60 - k, 10) : k \in 0..Spread}
                 \cup {F(95 + k, 10) : k \in 0..Spread}
StepsVals == {NaNF} \cup {F(5000 - k, 1) : k \in 0..Spread}
                 \cup {F(8000 - k, 1) : k \in 0..Spread}
WaterVals == {NaNF} \cup {F(2000 - k, 1) : k \in 0..Spread}
                 \cup {F(4000 + k, 1) : k \in 0..Spread}
StudyVals == {NaNF} \cup {F(20 - k, 10) : k \in 0..Spread}
                 \cup {F(80 + k, 10) : k \in 0..Spread}
WakeVals == {NaNF} \cup {F(450 - k, 100) : k \in 0..Spread}
                 \cup {F(1000 + k, 100) : k \in 0..Spread}
MoodVals == {NaNF, None} \cup {F(5 - k, 1) : k \in 0..Spread}
                 \cup {F(8 - k, 1) : k \in 0..Spread}

InitRules ==
    /\ Fresh
    /\ pc = "input"
    /\ df = [cols |-> {}, rows |-> <<>>]
    /\ args \in [sleep : SleepVals, steps : StepsVals, water_ml : WaterVals,
                 study : StudyVals, wake_hour : WakeVals, mood : MoodVals]

SpecParse == InitParse /\ [][ScriptNext]_vars
SpecColumns == InitColumns /\ [][ScriptNext]_vars
SpecMood == InitMood /\ [][ScriptNext]_vars
SpecCorr == InitCorr /\ [][Recommend]_vars
SpecRules == InitRules /\ [][Evaluate]_vars

Init == InitColumns
Next == ScriptNext
Spec == Init /\ [][Next]_vars

---------------------------------------------------------------------------
(* The wake-time parser: C1, C8 (under SpecParse). *)

Parsed == pc # "tab1" /\ err # "KeyError"

\* a text "HH:MM" of two digits, a colon and two digits
IsHHMM(x) ==
    /\ Len(x) = 5
    /\ x[3] = ":"
    /\ \A i \in {1, 2, 4, 5} : x[i] \in Digits

HourOf(x) == 10 * DigitVal(x[1]) + DigitVal(x[2])
MinuteOf(x) == 10 * DigitVal(x[4]) + DigitVal(x[5])

\* a text that reads as H:M with integer parts, 0 <= H <= 23 and 0 <= M <= 59
WellFormed(x) ==
    /\ Len(split(x)) = 2
    /\ int_ok(split(x)[1]) /\ int_ok(split(x)[2])
    /\ int(split(x)[1]) \in 0..23
    /\ int(split(x)[2]) \in 0..59

\* C1: once parse_features has run, a row whose wake-time text is malformed
\* (no colon, parts that are no integers, an hour of 24 or more, a minute of 60
\* or more, the empty text) has null Wake_Minutes and Wake_Hour, and every
\* Wake_Minutes that is not null is in 0..1439.
C1_MalformedIsNull ==
    Parsed =>
        \A i \in DOMAIN df.rows :
            /\ ~WellFormed(df.rows[i]["Wake_Up_Time"]) =>
                   /\ df.rows[i]["Wake_Minutes"].t = "nan"
                   /\ df.rows[i]["Wake_Hour"].t = "nan"
            /\ df.rows[i]["Wake_Minutes"].t = "num" =>
                   df.rows[i]["Wake_Minutes"].v \in 0..1439

\* C8: once parse_features has run, a row whose wake-time text is a valid
\* "HH:MM" (H in 0..23, M in 0..59) has Wake_Minutes = H*60 + M, a value in
\* 0..1439, and Wake_Hour the two-decimal value nearest to Wake_Minutes/60:
\* 100*Wake_Hour is the integer nearest to 5*Wake_Minutes/3.
C8_ValidRoundTrip ==
    Parsed =>
        \A i \in DOMAIN df.rows :
            LET x == df.rows[i]["Wake_Up_Time"]
                wm == df.rows[i]["Wake_Minutes"]
                wh == df.rows[i]["Wake_Hour"]
            IN  (IsHHMM(x) /\ HourOf(x) <= 23 /\ MinuteOf(x) <= 59) =>
                    /\ wm = Num(HourOf(x) * 60 + MinuteOf(x))
                    /\ wm.v \in 0..1439
                    /\ wh.t = "num"
                    /\ 2 * Abs(3 * wh.v - 5 * wm.v) < 3

C8_Witness ==
    /\ Parsed
    /\ df.rows[1]["Wake_Up_Time"] = <<"2", "3", ":", "5", "9">>
    /\ df.rows[1]["Wake_Minutes"] = Num(1439)
    /\ df.rows[1]["Wake_Hour"] = Num(2398)

---------------------------------------------------------------------------
(* The rule engine: C5, C6, C9 (under SpecRules). *)

SleepTags == {"sleep_low", "sleep_ok", "sleep_long"}
StepsTags == {"steps_low", "steps_near", "steps_ok"}
WaterTags == {"water_low", "water_ok", "water_high"}
StudyTags == {"study_short", "study_ok", "study_long"}
WakeTags == {"wake_early", "wake_ok", "wake_late"}
MoodTags == {"mood_low", "mood_good"}
BaseTags == SleepTags \cup StepsTags \cup WaterTags \cup StudyTags \cup WakeTags

\* the items of a list that carry one of the tags, in the list's order
ItemsOf(list, tags) == SelectSeq(list, LAMBDA x : x \in tags)

\* the band of the value n/d between the bounds lo/10 and hi/10, both inclusive
Band(x, lo, hi, below, within, above) ==
    IF 10 * x.n < lo * x.d THEN below
    ELSE IF 10 * x.n > hi * x.d THEN above
    ELSE within

\* C5: each metric that is not null gets the item of its band in the fixed table
\* (sleep <6 / 6..9.5 / >9.5; steps <5000 / 5000..7999 / >=8000; water <2000 /
\* 2000..4000 / >4000; study <2 / 2..8 / >8; wake hour <4.5 / 4.5..10 / >10, the
\* inner bounds inclusive), whatever the values of the other metrics are.
C5_BandTable ==
    pc = "evaluated" =>
        /\ notna(args.sleep) =>
               ItemsOf(tips, SleepTags) =
                   <<Band(args.sleep, 60, 95, "sleep_low", "sleep_ok", "sleep_long")>>
        /\ notna(args.steps) =>
               ItemsOf(tips, StepsTags) =
                   <<IF args.steps.n >= 8000 * args.steps.d THEN "steps_ok"
                     ELSE IF args.steps.n >= 5000 * args.steps.d THEN "steps_near"
                     ELSE "steps_low">>
        /\ notna(args.water_ml) =>
               ItemsOf(tips, WaterTags) =
                   <<Band(args.water_ml, 20000, 40000,
                          "water_low", "water_ok", "water_high")>>
        /\ notna(args.study) =>
               ItemsOf(tips, StudyTags) =
                   <<Band(args.study, 20, 80, "study_short", "study_ok", "study_long")>>
        /\ notna(args.wake_hour) =>
               ItemsOf(tips, WakeTags) =
                   <<Band(args.wake_hour, 45, 100, "wake_early", "wake_ok", "wake_late")>>

\* sleep 9.5 is healthy and 7999 steps are near the target, beside a low water
\* intake, a long study day and a late wake-up
C5_Witness ==
    /\ pc = "evaluated"
    /\ args.sleep = F(95, 10) /\ args.steps = F(7999, 1)
    /\ args.water_ml = F(1999, 1) /\ args.study = F(81, 10)
    /\ args.wake_hour = F(1001, 100)
    /\ ItemsOf(tips, BaseTags) =
           <<"sleep_ok", "steps_near", "water_low", "study_long", "wake_late">>

\* C6: without a mood (left out, or null) there is no mood item; a mood below 5
\* adds exactly one low-mood item, a mood of 8 or more exactly one good-mood
\* item, a mood from 5 up to 8 none; and the items of the five base metrics are
\* those of the call without a mood.
C6_MoodOptional ==
    pc = "evaluated" =>
        /\ ItemsOf(tips, MoodTags) =
               (IF args.mood.t # "num" THEN <<>>
                ELSE IF args.mood.n < 5 * args.mood.d THEN <<"mood_low">>
                ELSE IF args.mood.n >= 8 * args.mood.d THEN <<"mood_good">>
                ELSE <<>>)
        /\ ItemsOf(tips, BaseTags) = tips0
        /\ ItemsOf(tips0, MoodTags) = <<>>

C6_Witness ==
    /\ pc = "evaluated"
    /\ args.mood = F(4, 1)
    /\ Len(tips0) = 5
    /\ tips = tips0 \o <<"mood_low">>

\* the place of an item's metric in the order sleep, steps, hydration, study,
\* wake time, mood
Rank(x) ==
    CASE x \in SleepTags -> 1 [] x \in StepsTags -> 2 [] x \in WaterTags -> 3
      [] x \in StudyTags -> 4 [] x \in WakeTags -> 5 [] x \in MoodTags -> 6

\* C9: the result holds exactly one item for each of sleep, steps, water_ml,
\* study and wake_hour that is not null and none for one that is null, at most
\* one mood item, and nothing else; the items stand in the order sleep, steps,
\* hydration, study, wake time, mood; with every input null the result is empty.
C9_OnePerMetricInOrder ==
    pc = "evaluated" =>
        /\ Len(ItemsOf(tips, SleepTags)) = (IF notna(args.sleep) THEN 1 ELSE 0)
        /\ Len(ItemsOf(tips, StepsTags)) = (IF notna(args.steps) THEN 1 ELSE 0)
        /\ Len(ItemsOf(tips, WaterTags)) = (IF notna(args.water_ml) THEN 1 ELSE 0)
        /\ Len(ItemsOf(tips, StudyTags)) = (IF notna(args.study) THEN 1 ELSE 0)
        /\ Len(ItemsOf(tips, WakeTags)) = (IF notna(args.wake_hour) THEN 1 ELSE 0)
        /\ Len(ItemsOf(tips, MoodTags)) <= 1
        /\ \A i \in DOMAIN tips : tips[i] \in BaseTags \cup MoodTags
        /\ \A i, j \in DOMAIN tips : i < j => Rank(tips[i]) < Rank(tips[j])
        /\ (\A k \in DOMAIN args : ~notna(args[k])) => tips = <<>>

\* sleep and study are null, the other four are not
C9_Witness ==
    /\ pc = "evaluated"
    /\ ~notna(args.sleep) /\ ~notna(args.study)
    /\ notna(args.steps) /\ notna(args.water_ml) /\ notna(args.wake_hour)
    /\ args.mood = F(8, 1)
    /\ Len(tips) = 4
    /\ tips[1] \in StepsTags /\ tips[2] \in WaterTags
    /\ tips[3] \in WakeTags /\ tips[4] = "mood_good"

---------------------------------------------------------------------------
(* The sample table and its columns: C2, C3, C4 (under SpecColumns). *)

\* C2: whichever of the eight input columns the table holds, parse_features and
\* dataset_recommendations raise nothing, and the advice lacks only the items
\* of the metrics whose column is absent.
C2_ColumnsOptional ==
    /\ err \notin {"KeyError", "AttributeError"}
    /\ pc = "done" =>
           /\ "Sleep_Hours" \in df.cols <=> ItemsOf(recs, SleepTags) # <<>>
           /\ "Steps" \in df.cols <=> ItemsOf(recs, StepsTags) # <<>>
           /\ "Water_Intake_ml" \in df.cols <=> ItemsOf(recs, WaterTags) # <<>>
           /\ "Study_Hours" \in df.cols <=> ItemsOf(recs, StudyTags) # <<>>
           /\ "Wake_Up_Time" \in df.cols <=> ItemsOf(recs, WakeTags) # <<>>

\* the whole sample table, once the four tabs have run
SampleDone == InputCols \subseteq df.cols /\ Len(df.rows) = 7 /\ pc = "done"

\* the sum of a column's cells over the seven rows
ColumnSum(col) == SumOf([i \in 1..7 |-> df.rows[i][col].v], 1..7)

\* C3 as claimed: the sample's average Sleep_Hours is 6.857 (6.86 to two
\* decimals), its average Steps 6271, its average water 2.143 L (2.14), and the
\* advice on the averages holds the healthy-sleep and the near-target items.
C3_SampleAveragesAsClaimed ==
    SampleDone =>
        /\ RoundHalfEven(1000 * ColumnSum("Sleep_Hours"), 7 * 10) = 6857
        /\ kpis["Avg Sleep (hrs)"] = Num(686)
        /\ kpis["Avg Steps"] = Num(6271)
        /\ RoundHalfEven(100 * ColumnSum("Water_Intake_ml"), 7) = 2143
        /\ kpis["Avg Water (L)"] = Num(214)
        /\ ItemsOf(recs, SleepTags) = <<"sleep_ok">>
        /\ ItemsOf(recs, StepsTags) = <<"steps_near">>

\* C3, amended: the sample's average Sleep_Hours is 7.0 (7.00 to two decimals);
\* the rest is as claimed.
C3_SampleAverages ==
    SampleDone =>
        /\ ColumnSum("Sleep_Hours") = 7 * 7 * 10
        /\ kpis["Avg Sleep (hrs)"] = Num(700)
        /\ RoundHalfEven(100 * ColumnSum("Steps"), 7) = 6271
        /\ kpis["Avg Steps"] = Num(6271)
        /\ RoundHalfEven(100 * ColumnSum("Water_Intake_ml"), 7) = 2143
        /\ kpis["Avg Water (L)"] = Num(214)
        /\ ItemsOf(recs, SleepTags) = <<"sleep_ok">>
        /\ ItemsOf(recs, StepsTags) = <<"steps_near">>

C3_Witness ==
    /\ SampleDone
    /\ report.written
    /\ report.averages["Sleep_Hours"] = Num(700)
    /\ report.averages["Mood_Score"] = Num(686)
    /\ Len(recs) >= 5

\* the numeric columns among the input columns
NumericInputs == InputCols \ {"Date", "Wake_Up_Time"}

\* C4: for a table whose input columns are Date and exactly one numeric column,
\* the correlation step of the Insights tab and of the report gives the 'not
\* enough numeric columns' message, never a matrix.
C4_OneNumericColumnWarns ==
    (\E c \in NumericInputs : df.cols \cap InputCols = {"Date", c}) =>
        /\ matrix.kind \in {"none", "warning"}
        /\ report.written => report.corr.kind = "warning"

---------------------------------------------------------------------------
(* The weekday of the best mood: C7 (under SpecMood). *)

InsightsRan == pc \in {"tab4", "done"} \/ err = "AttributeError"

\* the rows of weekday w (a row with a null date is of no weekday), and those
\* of them that hold a mood
RowsOn(w) ==
    {i \in DOMAIN df.rows :
        /\ df.rows[i]["Date"].t = "num"
        /\ DayNames[((df.rows[i]["Date"].v + 3) % 7) + 1] = DayNames[w]}
MoodRowsOn(w) == {i \in RowsOn(w) : df.rows[i]["Mood_Score"].t = "num"}
MoodSum(w) == SumOf([i \in MoodRowsOn(w) |-> df.rows[i]["Mood_Score"].v], MoodRowsOn(w))

\* the weekdays, as places in Monday..Sunday, whose mean mood is the greatest
BestDays ==
    {w \in 1..7 :
        /\ MoodRowsOn(w) # {}
        /\ \A u \in 1..7 :
               MoodRowsOn(u) # {} =>
                   MoodSum(w) * Cardinality(MoodRowsOn(u))
                       >= MoodSum(u) * Cardinality(MoodRowsOn(w))}

EarliestBestDay == DayNames[CHOOSE w \in BestDays : \A u \in BestDays : w <= u]

MoodDayLines == SelectSeq(insights, LAMBDA l : l.label = "Highest average mood day")

---------------------------------------------------------------------------
(* The correlation notes: C10 (under SpecCorr). *)

\* Pearson's r of two columns as cov/sqrt(vx*vy), from the differences between
\* the rows that hold both values
BothRows(a, b) ==
    {i \in DOMAIN df.rows : df.rows[i][a].t = "num" /\ df.rows[i][b].t = "num"}
RowPairs(a, b) == {p \in BothRows(a, b) \X BothRows(a, b) : p[1] < p[2]}
Diff(col, p) == df.rows[p[1]][col].v - df.rows[p[2]][col].v
PairCov(a, b) ==
    SumOf([p \in RowPairs(a, b) |-> Diff(a, p) * Diff(b, p)], RowPairs(a, b))
PairVar(a, b) ==
    SumOf([p \in RowPairs(a, b) |-> Diff(a, p) * Diff(a, p)], RowPairs(a, b))
Defined(a, b) == PairVar(a, b) > 0 /\ PairVar(b, a) > 0
\* abs(r) >= 1/4
AbsAtLeastQuarter(a, b) ==
    16 * PairCov(a, b) * PairCov(a, b) >= PairVar(a, b) * PairVar(b, a)

\* C10: dataset_recommendations appends the sleep-mood note exactly when the
\* correlation of Sleep_Hours and Mood_Score is defined and its absolute value
\* is at least 0.25, and the steps-mood note exactly when the correlation of
\* Steps and Mood_Score is defined and its signed value is at least 0.25; the
\* notes come after every per-metric item, the sleep note first.
C10_CorrelationNotes ==
    pc = "returned" =>
        /\ ItemsOf(recs, {"note_sleep_mood"}) =
               (IF Defined("Sleep_Hours", "Mood_Score")
                   /\ AbsAtLeastQuarter("Sleep_Hours", "Mood_Score")
                THEN <<"note_sleep_mood">> ELSE <<>>)
        /\ ItemsOf(recs, {"note_steps_mood"}) =
               (IF Defined("Steps", "Mood_Score")
                   /\ PairCov("Steps", "Mood_Score") > 0
                   /\ AbsAtLeastQuarter("Steps", "Mood_Score")
                THEN <<"note_steps_mood">> ELSE <<>>)
        /\ recs = ItemsOf(recs, BaseTags \cup MoodTags)
                      \o ItemsOf(recs, {"note_sleep_mood"})
                      \o ItemsOf(recs, {"note_steps_mood"})

\* both correlations are negative and at most -0.25: the sleep note alone, after
\* the per-metric items
C10_Witness ==
    /\ pc = "returned"
    /\ PairCov("Sleep_Hours", "Mood_Score") < 0
    /\ PairCov("Steps", "Mood_Score") < 0
    /\ Defined("Steps", "Mood_Score") /\ AbsAtLeastQuarter("Steps", "Mood_Score")
    /\ Len(recs) >= 6
    /\ recs[Len(recs)] = "note_sleep_mood"
    /\ ItemsOf(recs, {"note_steps_mood"}) = <<>>

=============================================================================
